---- MODULE Spec2Model ----
(***************************************************************************)
(* A model of src/first_page.py: BiharElectionScraper, the crawler that    *)
(* walks the district x post cross product of a results portal, reads the  *)
(* result table of every combination, downloads the two documents of every *)
(* row and appends one record per row to a CSV file.                       *)
(*                                                                         *)
(* The program is sequential.  Its state is the position of the single     *)
(* thread (pc), the session objects, the loop variables and locals, the    *)
(* CSV file (sink), the download directory (files) and the console (log).  *)
(* The portal is the environment: the option lists of the two dropdowns    *)
(* and the number of rows of a result table are fixed when the run starts; *)
(* the content of a row, and whether a call into the browser, the network  *)
(* or the file system fails, is chosen when the program gets there.        *)
(* Every irregular choice (a failing call, a row that is not a plain       *)
(* candidate row) is counted in anom and at most MaxAnomalies are taken in *)
(* one run.  origin is a history variable: the program keeps no trace of   *)
(* the combination a line of the file was written under.  The script can   *)
(* be started again on the same output file; run counts the starts.        *)
(***************************************************************************)
EXTENDS Integers, Sequences, FiniteSets, TLC

\* Bounds of the model.
MaxDistricts == 2
MaxPosts == 2
MaxRows == 2
MaxAnomalies == 2
MaxRuns == 2

\* first_page.py:83, the column count below which a row is skipped.
MinCols == 15

VARIABLES
    pc,          \* position of the program
    playwright,  \* self.playwright: "none" | "started" | "stopped"
    browser,     \* self.browser:    "none" | "open" | "closed"
    page,        \* self.page:       "none" | "open" | "closed"
    ddlDistrict, \* the portal: <option>s of select#ddlDistrict, (value, text)
    ddlPosts,    \* the portal: <option>s of select#ddlPosts
    tableRows,   \* the portal: number of <tr> of a result table
    districts,   \* run_all_combinations: districts
    posts,       \* run_all_combinations: posts
    di,          \* index of the outer loop (1-based)
    pi,          \* index of the inner loop (1-based)
    ri,          \* extract_table_data: i (0-based)
    nrows,       \* extract_table_data: rows.count()
    cols,        \* extract_table_data: cols.count() of the row last located
    cur,         \* extract_table_data: the locals of the row being processed
    f,           \* extract_table_data: the handle on self.output_file, "closed" | "open"
    sink,        \* the lines of self.output_file
    origin,      \* history: for every line of sink, the (district, post) values selected when it was written
    files,       \* the files under self.download_dir: path -> what was written last
    log,         \* the lines printed
    anom,        \* irregular choices taken so far
    run          \* the number of times the script was started on self.output_file

vars == <<pc, playwright, browser, page, ddlDistrict, ddlPosts, tableRows,
          districts, posts, di, pi, ri, nrows, cols, cur, f, sink, origin, files, log,
          anom, run>>

session == <<playwright, browser, page>>
portal == <<ddlDistrict, ddlPosts, tableRows>>
options == <<districts, posts>>
output == <<sink, origin, files>>
process == <<f, run>>

----------------------------------------------------------------------------
(* Text.  A text is a sequence of pieces, one-character strings unless     *)
(* said otherwise; the empty string is <<>>.                                *)

Digits == <<"1", "2", "3", "4", "5", "6", "7", "8", "9">>

Last(s) == s[Len(s)]

\* str.strip(): the text without its leading and trailing blanks.
RECURSIVE LStrip(_)
LStrip(s) ==
    IF s # <<>> /\ Head(s) = " " THEN LStrip(Tail(s)) ELSE s

RECURSIVE RStrip(_)
RStrip(s) ==
    IF s # <<>> /\ Last(s) = " " THEN RStrip(SubSeq(s, 1, Len(s) - 1)) ELSE s

Strip(s) == RStrip(LStrip(s))

\* str.replace('/', '_')
Sanitize(s) == [k \in 1..Len(s) |-> IF s[k] = "/" THEN "_" ELSE s[k]]

----------------------------------------------------------------------------
(* The portal.                                                             *)

\* The text of the k-th real option of a dropdown.
Label(kind, k) == <<kind, Digits[k]>>

\* The <option>s of a dropdown that shows n of them: the placeholder first.
DomOptions(kind, n) ==
    [k \in 1..n |-> IF k = 1 THEN <<"", <<"S", "e", "l", "e", "c", "t">>>>
                    ELSE <<Digits[k - 1], Label(kind, k - 1)>>]

\* A text the portal shows that is the text of no option.
OtherText == <<"?">>

PhotoUrl == "http://sec/photo.jpg"
AffidavitUrl == "http://sec/affidavit.pdf"

\* The candidate name of the row at index i.
PlainName(i) == <<"N", Digits[i + 1]>>
SlashName(i) == <<"N", "/", Digits[i + 1]>>
UnderName(i) == <<"N", "_", Digits[i + 1]>>

\* What a <td> shows around its text.
Pad(t) == <<" ">> \o t \o <<" ">>

ColText == <<"a", "b", "c", "d", "e", "f", "g", "h", "i", "j", "k", "l", "m", "n", "o", "p">>

\* The shapes a row can have: its column count, whether the district and post
\* cells show the selected combination, the kind of name, and the <img> and <a> of the last two cells
\* ("url": present with a URL, "empty": present with an empty URL, "none":
\* no such element).
RowShapes ==
    [ncols : {MinCols}, shown : {"match", "other"},
     name : {"plain", "slash", "under"}, img : {"url", "empty", "none"},
     a : {"url", "empty", "none"}]
    \cup
    [ncols : {MinCols - 1}, shown : {"match"},
     name : {"plain"}, img : {"url"}, a : {"url"}]

\* The number of irregular aspects of a row shape.
Cost(s) ==
    (IF s.ncols # MinCols THEN 1 ELSE 0) + (IF s.shown # "match" THEN 1 ELSE 0)
    + (IF s.name # "plain" THEN 1 ELSE 0)
    + (IF s.img # "url" THEN 1 ELSE 0) + (IF s.a # "url" THEN 1 ELSE 0)

\* The <tr> of shape s at index i of the table shown for (d_text, p_text):
\* cells[k] is the inner text of cols.nth(k); img and a are the src and href
\* of the elements found in cols.nth(13) and cols.nth(14).
Row(s, i, d_text, p_text) ==
    [ncols |-> s.ncols,
     cells |-> [k \in 0..(s.ncols - 1) |->
                  IF k = 1 THEN Pad(IF s.shown = "match" THEN p_text ELSE OtherText)
                  ELSE IF k = 2 THEN Pad(IF s.shown = "match" THEN d_text ELSE OtherText)
                  ELSE IF k = 6 THEN Pad(IF s.name = "plain" THEN PlainName(i)
                                         ELSE IF s.name = "slash" THEN SlashName(i)
                                         ELSE UnderName(i))
                  ELSE Pad(<<ColText[k + 1]>>)],
     img |-> IF s.ncols < 14 \/ s.img = "none" THEN <<>>
             ELSE IF s.img = "empty" THEN <<"">> ELSE <<PhotoUrl>>,
     a |-> IF s.ncols < 15 \/ s.a = "none" THEN <<>>
           ELSE IF s.a = "empty" THEN <<"">> ELSE <<AffidavitUrl>>]

----------------------------------------------------------------------------
(* The CSV file.                                                           *)

\* ensure_csv_exists: the header row.
Header ==
    <<"District", "Post", "NagarNikay", "WardNo", "ReservationStatus",
      "CandidateName", "GuardianName", "Gender", "Age", "Category",
      "Address", "MobileNo", "CandidatePhotoFile", "AffidavitFile">>

\* ensure_csv_exists without the test of the file: it is opened for
\* writing, so what it held is gone, and the header is written.
ensure_csv_rewritten(exists, lines) == <<Header>>

\* ensure_csv_exists: the lines of the output file once it returned, given
\* whether the file existed and the lines it held.
ensure_csv_exists(exists, lines) == IF ~exists THEN <<Header>> ELSE lines

NoRow == [none |-> TRUE]

----------------------------------------------------------------------------
(* The state after BiharElectionScraper(headless) returned: no session     *)
(* object yet, and the output file, named after the current second, holds  *)
(* its header.                                                             *)
Init ==
    /\ pc = "start"
    /\ playwright = "none" /\ browser = "none" /\ page = "none"
    /\ \E n \in 0..(MaxDistricts + 1) : ddlDistrict = DomOptions("D", n)
    /\ \E n \in 0..(MaxPosts + 1) : ddlPosts = DomOptions("P", n)
    /\ tableRows \in 0..MaxRows
    /\ districts = <<>> /\ posts = <<>>
    /\ di = 0 /\ pi = 0 /\ ri = 0 /\ nrows = 0 /\ cols = 0
    /\ cur = NoRow
    /\ f = "closed"
    /\ sink = ensure_csv_exists(FALSE, <<>>)
    /\ origin = <<<<"", "">>>>
    /\ files = <<>>
    /\ log = <<>>
    /\ anom = 0
    /\ run = 1

\* An irregular choice may still be taken.
MayFail == anom < MaxAnomalies

----------------------------------------------------------------------------
(* start_browser, called by the script before run_all_combinations and     *)
(* outside any try: an exception of one of its calls ends the process.     *)

start_browser ==
    /\ pc = "start"
    /\ \/ /\ playwright' = "started" /\ browser' = "open" /\ page' = "open"
          /\ pc' = "navigate"
          /\ UNCHANGED anom
       \/ /\ MayFail
          /\ anom' = anom + 1
          /\ pc' = "crashed"
          /\ \E reached \in 0..2 :
                /\ playwright' = IF reached >= 1 THEN "started" ELSE "none"
                /\ browser' = IF reached >= 2 THEN "open" ELSE "none"
                /\ page' = "none"
    /\ UNCHANGED <<portal, process, options, di, pi, ri, nrows, cols, cur, output, log>>

----------------------------------------------------------------------------
(* run_all_combinations.                                                   *)

\* Fatal without the finally clause: the error is printed and the method
\* returns.
FatalWithoutFinally(lg, cause) ==
    /\ log' = Append(lg, <<"fatal", cause>>)
    /\ pc' = "done"

\* The except clause inside the loops: the error is printed and the
\* enumeration goes on.
FatalContinues(lg, cause) ==
    /\ log' = Append(lg, <<"fatal", cause>>)
    /\ pc' = "district"

\* The error printed and raised again, with no finally clause: it reaches
\* the caller of run_all_combinations.
FatalReraised(lg, cause) ==
    /\ log' = Append(lg, <<"fatal", cause>>)
    /\ pc' = "crashed"

\* The except and finally clauses of run_all_combinations: the error is
\* printed and control passes to cleanup.  lg is the console so far.
Fatal(lg, cause) ==
    /\ log' = Append(lg, <<"fatal", cause>>)
    /\ pc' = "cleanup"

\* navigate: the landing page, the menu button, the results page.  None of
\* the three calls is guarded, so a failure of any of them leaves navigate
\* and run_all_combinations' try block.
NavigateCalls == {"goto_landing", "click_menu", "goto_results"}

navigate ==
    /\ pc = "navigate"
    /\ \/ /\ pc' = "options"
          /\ UNCHANGED <<log, anom>>
       \/ /\ MayFail
          /\ anom' = anom + 1
          /\ \E call \in NavigateCalls : Fatal(log, call)
    /\ UNCHANGED <<session, portal, process, options, di, pi, ri, nrows, cols, cur, output>>

\* get_select_options: the (value, text) of the options at index 1 and up.
RECURSIVE OptionsFrom(_, _, _)
OptionsFrom(opts, i, values) ==
    IF i >= Len(opts) THEN values
    ELSE OptionsFrom(opts, i + 1, Append(values, <<opts[i + 1][1], opts[i + 1][2]>>))

\* The loop started at index 0: range(count).
get_select_options_all(opts) == OptionsFrom(opts, 0, <<>>)

get_select_options(opts) == OptionsFrom(opts, 1, <<>>)

\* The two reads of lines 129-130.  A read that fails leaves its list, and
\* the one after it, unassigned.
read_options ==
    /\ pc = "options"
    /\ \/ /\ districts' = get_select_options(ddlDistrict)
          /\ posts' = get_select_options(ddlPosts)
          /\ di' = 1
          /\ pc' = "district"
          /\ UNCHANGED <<log, anom>>
       \/ /\ MayFail
          /\ anom' = anom + 1
          /\ \E done \in 0..1 :
                districts' = IF done = 1 THEN get_select_options(ddlDistrict) ELSE <<>>
          /\ Fatal(log, "get_select_options")
          /\ UNCHANGED <<posts, di>>
    /\ UNCHANGED <<session, portal, process, pi, ri, nrows, cols, cur, output>>

\* The head of the outer loop and lines 133-134.
outer_loop ==
    /\ pc = "district"
    /\ \/ /\ di > Len(districts)
          /\ pc' = "cleanup"
          /\ UNCHANGED <<pi, log, anom>>
       \/ /\ di <= Len(districts)
          /\ pi' = 1
          /\ pc' = "post"
          /\ UNCHANGED <<log, anom>>
       \/ /\ di <= Len(districts)
          /\ MayFail
          /\ anom' = anom + 1
          /\ Fatal(log, "select_district_outer")
          /\ UNCHANGED pi
    /\ UNCHANGED <<session, portal, process, options, di, ri, nrows, cols, cur, output>>

\* select_combination_and_submit: the calls that can fail.
SubmitCalls == {"select_district", "select_post", "click_submit"}

\* The outer loop walking the districts from the last to the first.
DistrictAtReversed(k) == districts[Len(districts) + 1 - k]

\* The (value, text) the outer and the inner loop hold at their k-th turn.
DistrictAt(k) == districts[k]
PostAt(k) == posts[k]

\* The line printed at line 137.
Scraping(d, p) == <<"scraping", DistrictAt(d)[2], PostAt(p)[2]>>

\* The head of the inner loop and lines 137-138: the combination is
\* announced, then selected and submitted; the call is not inside the inner
\* try.
inner_loop ==
    /\ pc = "post"
    /\ \/ /\ pi > Len(posts)
          /\ di' = di + 1
          /\ pc' = "district"
          /\ UNCHANGED <<log, anom>>
       \/ /\ pi <= Len(posts)
          /\ log' = Append(log, Scraping(di, pi))
          /\ pc' = "extract"
          /\ UNCHANGED <<di, anom>>
       \/ /\ pi <= Len(posts)
          /\ MayFail
          /\ anom' = anom + 1
          /\ \E call \in SubmitCalls : Fatal(Append(log, Scraping(di, pi)), call)
          /\ UNCHANGED di
    /\ UNCHANGED <<session, portal, process, options, pi, ri, nrows, cols, cur, output>>

\* extract_table_data called without the inner try: its exception reaches
\* the outer except clause.
ExtractErrorEscapes(cause) ==
    /\ Fatal(log, cause)
    /\ UNCHANGED pi

\* The inner except clause, lines 141-142, and the step of the inner loop.
ExtractError(cause) ==
    /\ log' = Append(log, <<"extract_error", cause>>)
    /\ pi' = pi + 1
    /\ pc' = "post"

\* extract_table_data returns: the step of the inner loop.
EndCombination ==
    /\ pi' = pi + 1
    /\ pc' = "post"

\* Lines 73-80: the wait for the table, the visibility test, the row count.
TableCalls == {"wait_for_selector", "is_visible", "rows_count"}

extract_start ==
    /\ pc = "extract"
    /\ \/ /\ nrows' = tableRows
          /\ ri' = 0
          /\ pc' = "row"
          /\ UNCHANGED <<pi, log, anom>>
       \/ /\ MayFail
          /\ anom' = anom + 1
          /\ log' = Append(log, <<"not_visible">>)
          /\ EndCombination
          /\ UNCHANGED <<ri, nrows>>
       \/ /\ MayFail
          /\ anom' = anom + 1
          /\ \E call \in TableCalls : ExtractError(call)
          /\ UNCHANGED <<ri, nrows>>
    /\ UNCHANGED <<session, portal, process, options, di, cols, cur, output>>

\* Lines 86-104: the locals of a row whose cells were read.  Texts are
\* stripped; the URL of a document is "" when its element is missing, and
\* both file names start empty.
ReadRow(row) ==
    [post_name |-> Strip(row.cells[1]),
     district_name |-> Strip(row.cells[2]),
     nagarnikay |-> Strip(row.cells[3]),
     wardno |-> Strip(row.cells[4]),
     reservation_status |-> Strip(row.cells[5]),
     candidate_name |-> Strip(row.cells[6]),
     guardian_name |-> Strip(row.cells[7]),
     gender |-> Strip(row.cells[8]),
     age |-> Strip(row.cells[9]),
     category |-> Strip(row.cells[10]),
     address |-> Strip(row.cells[11]),
     mobile_no |-> Strip(row.cells[12]),
     photo_url |-> IF Len(row.img) > 0 THEN row.img[1] ELSE "",
     affidavit_url |-> IF Len(row.a) > 0 THEN row.a[1] ELSE "",
     photo_filename |-> <<>>,
     affidavit_filename |-> <<>>]

\* The column test with its limit one too low.
TooShortOffByOne(row) == row.ncols < MinCols - 1

\* Line 83: the row is skipped.
TooShort(row) == row.ncols < MinCols

\* Lines 81-104: the head of the row loop, the column test and the reads.
read_row ==
    /\ pc = "row"
    /\ \/ /\ ri >= nrows
          /\ EndCombination
          /\ UNCHANGED <<ri, cols, cur, log, anom>>
       \/ /\ ri < nrows
          /\ \E s \in RowShapes :
                /\ anom + Cost(s) <= MaxAnomalies
                /\ anom' = anom + Cost(s)
                /\ LET row == Row(s, ri, DistrictAt(di)[2], PostAt(pi)[2]) IN
                   /\ cols' = row.ncols
                   /\ IF TooShort(row)
                      THEN /\ ri' = ri + 1
                           /\ UNCHANGED <<pc, cur>>
                      ELSE /\ cur' = ReadRow(row)
                           /\ pc' = "photo"
                           /\ UNCHANGED ri
          /\ UNCHANGED <<pi, log>>
       \/ /\ ri < nrows
          /\ MayFail
          /\ anom' = anom + 1
          /\ ExtractError("read_row")
          /\ UNCHANGED <<ri, cols, cur>>
    /\ UNCHANGED <<session, portal, process, options, di, nrows, output>>

\* os.path.join(self.download_dir, name.replace('/', '_') + suffix)
\* The fixed parts of a path are kept as one piece each.
DownloadDir == <<"downloads">>
PhotoSuffix == <<"_photo.jpg">>
AffidavitSuffix == <<"_affidavit.pdf">>

PathJoin(dir, name) == dir \o <<"/">> \o name

PhotoPath(candidate_name) ==
    PathJoin(DownloadDir, Sanitize(candidate_name) \o PhotoSuffix)

AffidavitPath(candidate_name) ==
    PathJoin(DownloadDir, Sanitize(candidate_name) \o AffidavitSuffix)

\* The file opened so that a file already there is kept as it is.
WriteKeepsExisting(store, filename, url, at) ==
    store @@ (filename :> [url |-> url, at |-> at])

\* Lines 66-67, open(filename, "wb") and f.write(response.content): the
\* file at filename holds what url served, whatever it held before; at is
\* the place on the console of the line that reports the write.
Write(store, filename, url, at) ==
    (filename :> [url |-> url, at |-> at]) @@ store

\* download_file without its try: a failed download raises into
\* extract_table_data.
download_file_raises(url, filename, ok, continue_at) ==
    IF ok
    THEN /\ files' = Write(files, filename, url, Len(log) + 1)
         /\ log' = Append(log, <<"downloaded", filename>>)
         /\ pc' = continue_at
         /\ UNCHANGED pi
    ELSE /\ ExtractError("download_file")
         /\ UNCHANGED files

\* download_file with a retry: after a failure the caller is sent back to
\* call it again.
download_file_retries(url, filename, ok, continue_at) ==
    /\ IF ok
       THEN /\ files' = Write(files, filename, url, Len(log) + 1)
            /\ log' = Append(log, <<"downloaded", filename>>)
            /\ pc' = continue_at
       ELSE /\ log' = Append(log, <<"download_failed", url>>)
            /\ pc' = pc
            /\ UNCHANGED files
    /\ UNCHANGED pi

\* download_file(url, filename): the file is written and the success
\* printed, or the exception of the request, of the status check or of the
\* write is caught and printed.  Either way the call returns normally and
\* the caller goes on at continue_at.
download_file(url, filename, ok, continue_at) ==
    /\ IF ok
       THEN /\ files' = Write(files, filename, url, Len(log) + 1)
            /\ log' = Append(log, <<"downloaded", filename>>)
       ELSE /\ log' = Append(log, <<"download_failed", url>>)
            /\ UNCHANGED files
    /\ pc' = continue_at
    /\ UNCHANGED pi

\* The row written in the order of the columns of the table: the post
\* before the district.
RecordInTableOrder(c) ==
    <<c.post_name, c.district_name, c.nagarnikay, c.wardno, c.reservation_status,
      c.candidate_name, c.guardian_name, c.gender, c.age, c.category,
      c.address, c.mobile_no, c.photo_filename, c.affidavit_filename>>

\* Lines 119-123: the row written.
Record(c) ==
    <<c.district_name, c.post_name, c.nagarnikay, c.wardno, c.reservation_status,
      c.candidate_name, c.guardian_name, c.gender, c.age, c.category,
      c.address, c.mobile_no, c.photo_filename, c.affidavit_filename>>

\* The combination selected and submitted: the values given to the two
\* select controls at line 138.
Selected == <<DistrictAt(di)[1], PostAt(pi)[1]>>

\* The photo fetched without the test of its URL.
download_photo_unguarded ==
    /\ pc = "photo"
    /\ cur' = [cur EXCEPT !.photo_filename = PhotoPath(cur.candidate_name)]
    /\ \E ok \in BOOLEAN :
          /\ ok \/ MayFail
          /\ anom' = IF ok THEN anom ELSE anom + 1
          /\ download_file(cur.photo_url, PhotoPath(cur.candidate_name), ok, "affidavit")
    /\ UNCHANGED <<session, portal, process, options, di, ri, nrows, cols, sink, origin>>

\* Lines 106-109.
download_photo ==
    /\ pc = "photo"
    /\ IF cur.photo_url # ""
       THEN /\ cur' = [cur EXCEPT !.photo_filename = PhotoPath(cur.candidate_name)]
            /\ \E ok \in BOOLEAN :
                  /\ ok \/ MayFail
                  /\ anom' = IF ok THEN anom ELSE anom + 1
                  /\ download_file(cur.photo_url, PhotoPath(cur.candidate_name), ok, "affidavit")
       ELSE /\ pc' = "affidavit"
            /\ UNCHANGED <<cur, files, log, pi, anom>>
    /\ UNCHANGED <<session, portal, process, options, di, ri, nrows, cols, sink, origin>>

\* The row written before its affidavit is fetched: the record goes out
\* with the path constructed, then the download is made and the row loop
\* goes on.
download_affidavit_after_record ==
    /\ pc = "affidavit"
    /\ LET path == IF cur.affidavit_url # "" THEN AffidavitPath(cur.candidate_name) ELSE <<>> IN
       /\ sink' = Append(sink, Record([cur EXCEPT !.affidavit_filename = path]))
       /\ origin' = Append(origin, Selected)
       /\ IF cur.affidavit_url # ""
          THEN \E ok \in BOOLEAN :
                  /\ ok \/ MayFail
                  /\ anom' = IF ok THEN anom ELSE anom + 1
                  /\ download_file(cur.affidavit_url, path, ok, "row")
          ELSE /\ pc' = "row"
               /\ UNCHANGED <<files, log, pi, anom>>
    /\ ri' = ri + 1
    /\ cur' = NoRow
    /\ UNCHANGED <<session, portal, process, options, di, nrows, cols>>

\* Lines 111-114.
download_affidavit ==
    /\ pc = "affidavit"
    /\ IF cur.affidavit_url # ""
       THEN /\ cur' = [cur EXCEPT !.affidavit_filename = AffidavitPath(cur.candidate_name)]
            /\ \E ok \in BOOLEAN :
                  /\ ok \/ MayFail
                  /\ anom' = IF ok THEN anom ELSE anom + 1
                  /\ download_file(cur.affidavit_url, AffidavitPath(cur.candidate_name), ok, "append")
       ELSE /\ pc' = "append"
            /\ UNCHANGED <<cur, files, log, pi, anom>>
    /\ UNCHANGED <<session, portal, process, options, di, ri, nrows, cols, sink, origin>>

\* The append failing after the row went out: the exception is raised when
\* the file is closed.
append_record_fails_late ==
    \/ /\ pc = "append"
       /\ f' = "open"
       /\ pc' = "write"
       /\ UNCHANGED <<pi, ri, cur, sink, origin, log, anom>>
    \/ /\ pc = "write"
       /\ sink' = Append(sink, Record(cur))
       /\ origin' = Append(origin, Selected)
       /\ f' = "closed"
       /\ cur' = NoRow
       /\ \/ /\ ri' = ri + 1
             /\ pc' = "row"
             /\ UNCHANGED <<pi, log, anom>>
          \/ /\ MayFail
             /\ anom' = anom + 1
             /\ ExtractError("open_output_file")
             /\ UNCHANGED ri
    /\ UNCHANGED <<session, portal, run, options, di, nrows, cols, files>>

\* The file opened without the with statement and never closed.
append_record_leaves_open ==
    \/ /\ pc = "append"
       /\ \/ /\ f' = "open"
             /\ pc' = "write"
             /\ UNCHANGED <<pi, cur, log, anom>>
          \/ /\ MayFail
             /\ anom' = anom + 1
             /\ ExtractError("open_output_file")
             /\ cur' = NoRow
             /\ UNCHANGED f
       /\ UNCHANGED <<ri, sink, origin>>
    \/ /\ pc = "write"
       /\ sink' = Append(sink, Record(cur))
       /\ origin' = Append(origin, Selected)
       /\ ri' = ri + 1
       /\ cur' = NoRow
       /\ pc' = "row"
       /\ UNCHANGED <<f, pi, log, anom>>
    /\ UNCHANGED <<session, portal, run, options, di, nrows, cols, files>>

\* Lines 116-123.  At "append" the file is opened for appending: the call
\* raises, or f is the open handle.  At "write" the row is written through
\* f and the with statement closes f; then the next row.  One row is one
\* write into the buffer of f, handed to the file when f is closed.
append_record ==
    \/ /\ pc = "append"
       /\ \/ /\ f' = "open"
             /\ pc' = "write"
             /\ UNCHANGED <<pi, cur, log, anom>>
          \/ /\ MayFail
             /\ anom' = anom + 1
             /\ ExtractError("open_output_file")
             /\ cur' = NoRow
             /\ UNCHANGED f
       /\ UNCHANGED <<ri, sink, origin>>
    \/ /\ pc = "write"
       /\ sink' = Append(sink, Record(cur))
       /\ origin' = Append(origin, Selected)
       /\ f' = "closed"
       /\ ri' = ri + 1
       /\ cur' = NoRow
       /\ pc' = "row"
       /\ UNCHANGED <<pi, log, anom>>
    /\ UNCHANGED <<session, portal, run, options, di, nrows, cols, files>>

\* cleanup: each session object that was set is released.  Closing a page
\* or a browser that is already gone, and stopping the engine, do not raise.
cleanup ==
    /\ pc = "cleanup"
    /\ page' = IF page # "none" THEN "closed" ELSE page
    /\ browser' = IF browser # "none" THEN "closed" ELSE browser
    /\ playwright' = IF playwright # "none" THEN "stopped" ELSE playwright
    /\ pc' = "done"
    /\ UNCHANGED <<portal, process, options, di, pi, ri, nrows, cols, cur, output, log, anom>>

Next ==
    \/ start_browser
    \/ navigate
    \/ read_options
    \/ outer_loop
    \/ inner_loop
    \/ extract_start
    \/ read_row
    \/ download_photo
    \/ download_affidavit
    \/ append_record
    \/ cleanup

Spec == Init /\ [][Next]_vars

\* The run when every wait is bounded: a call into the browser, the network
\* or the file system returns or raises, so the single thread takes its next
\* step as long as it has one.
SpecFair == Spec /\ WF_vars(Next)

\* The script started again once the process before it is gone, at a time
\* that gives self.output_file the same name: a new process, whose
\* constructor (9-18) finds the output file and the downloads of the run
\* before it.  The console is read as one, run after run.
BiharElectionScraper ==
    /\ pc \in {"done", "crashed"}
    /\ run < MaxRuns
    /\ run' = run + 1
    /\ playwright' = "none" /\ browser' = "none" /\ page' = "none"
    /\ districts' = <<>> /\ posts' = <<>>
    /\ di' = 0 /\ pi' = 0 /\ ri' = 0 /\ nrows' = 0 /\ cols' = 0
    /\ cur' = NoRow
    /\ f' = "closed"
    /\ sink' = ensure_csv_exists(TRUE, sink)
    /\ pc' = "start"
    /\ UNCHANGED <<portal, origin, files, log, anom>>

NextRerun ==
    \/ Next
    \/ BiharElectionScraper

\* Up to MaxRuns runs of the script on one output file.
SpecRerun == Init /\ [][NextRerun]_vars

----------------------------------------------------------------------------
(* Properties.                                                             *)

IsPrefix(a, b) == Len(a) <= Len(b) /\ SubSeq(b, 1, Len(a)) = a

\* The combinations announced so far, in the order of their announcement.
IsScraping(e) == e[1] = "scraping"
Attempts == SelectSeq(log, IsScraping)

\* The fatal errors and the extraction failures printed so far.
FatalCauses == {log[i][2] : i \in {j \in 1..Len(log) : log[j][1] = "fatal"}}
ExtractFailures == {i \in 1..Len(log) : log[i][1] \in {"extract_error", "not_visible"}}

\* The cross product of the two lists read, district-major.
NumCombos == Len(districts) * Len(posts)
AllCombos ==
    [k \in 1..NumCombos |->
        <<"scraping", districts[((k - 1) \div Len(posts)) + 1][2],
                      posts[((k - 1) % Len(posts)) + 1][2]>>]

\* The combinations that have a record in the sink.
Origins == {origin[k] : k \in 2..Len(origin)}

\* The failures that extract_table_data can raise.
ExtractCauses == TableCalls \cup {"read_row", "open_output_file"}

\* C1: once the options were read, every run attempts exactly
\* |districts| x |posts| combinations, whichever step of a single
\* combination fails: here, when no call outside a combination failed.
C1_EveryCombinationAttempted ==
    (pc = "done" /\ FatalCauses \subseteq SubmitCalls)
        => Len(Attempts) = NumCombos

\* C2: a failure of extract_table_data is never fatal: it is never printed
\* as a fatal error, the line printed right after it announces the next
\* pair of the enumeration (unless selecting the next district fails first,
\* a failure of its own), and a run without a fatal error has attempted
\* every pair.
C2_ExtractFailureNotFatal ==
    /\ FatalCauses \cap ExtractCauses = {}
    /\ IsPrefix(Attempts, AllCombos)
    /\ \A i \in ExtractFailures :
          i < Len(log) =>
             \/ IsScraping(log[i + 1])
             \/ log[i + 1] = <<"fatal", "select_district_outer">>
    /\ (pc = "done" /\ FatalCauses = {}) => Attempts = AllCombos

\* The scenario of C2: 2 x 2 combinations, the table of one of them never
\* appears, the run completes and the sink holds records of exactly the
\* three others.
C2_Witness ==
    /\ pc = "done"
    /\ Len(districts) = 2 /\ Len(posts) = 2
    /\ FatalCauses = {}
    /\ Cardinality(ExtractFailures) = 1
    /\ \E i \in ExtractFailures : log[i] = <<"extract_error", "wait_for_selector">>
    /\ Len(Attempts) = 4
    /\ Cardinality(Origins) = 3
    /\ Len(sink) = 1 + 3 * tableRows

\* C3: when run_all_combinations has ended, the page and the browser are
\* closed and the automation engine is stopped; and it ends nowhere else:
\* from every other position of the run a step is possible.
C3_TeardownReleasesSession ==
    /\ pc = "done" => (page = "closed" /\ browser = "closed" /\ playwright = "stopped")
    /\ pc \notin {"done", "crashed"} => ENABLED Next

\* A run that ended by a fatal error, with the session released.
C3_Witness ==
    /\ pc = "done"
    /\ FatalCauses # {}
    /\ page = "closed" /\ browser = "closed" /\ playwright = "stopped"

\* C4: a row with enough columns goes from its photo to its affidavit to
\* the append whether a download succeeds or fails, the sink and the row
\* index untouched on the way, and the append writes exactly one record and
\* moves to the next row.
C4_RowAppendedWhateverDownloads ==
    [][/\ pc = "photo" => (pc' = "affidavit" /\ ri' = ri /\ pi' = pi /\ sink' = sink)
       /\ pc = "affidavit" => (pc' = "append" /\ ri' = ri /\ pi' = pi /\ sink' = sink)
       /\ (pc = "append" /\ pc' # "post") =>
             (pc' = "write" /\ ri' = ri /\ pi' = pi /\ sink' = sink)
       /\ pc = "write" =>
             (pc' = "row" /\ Len(sink') = Len(sink) + 1 /\ ri' = ri + 1 /\ pi' = pi)]_vars

\* The record of a row was appended after both of its downloads failed.
C4_Witness ==
    /\ pc = "row" /\ ri = 1
    /\ Len(sink) = 2
    /\ Len(log) = 3
    /\ log[2][1] = "download_failed" /\ log[3][1] = "download_failed"

\* The downloads of the row about to be appended, as printed: the photo is
\* printed before the affidavit, and a row prints at most one line for each.
AffidavitFailed ==
    /\ cur.affidavit_url # ""
    /\ Last(log)[1] = "download_failed"
PhotoFailed ==
    /\ cur.photo_url # ""
    /\ log[Len(log) - (IF cur.affidavit_url # "" THEN 1 ELSE 0)][1] = "download_failed"

\* C5: the record appended for a row has an empty path field for every
\* document whose download failed.
C5_FailedDownloadLeavesPathEmpty ==
    [][(pc = "write" /\ sink' # sink) =>
          /\ PhotoFailed => Last(sink')[13] = <<>>
          /\ AffidavitFailed => Last(sink')[14] = <<>>]_vars

\* A step in which an exception of extract_table_data is caught.
ExtractErrorStep ==
    /\ Len(log') = Len(log) + 1
    /\ Last(log')[1] = "extract_error"

\* The records that were written under combination c, given the origins
\* of the lines of the sink.
RecordsIn(orig, c) == {k \in 2..Len(orig) : orig[k] = c}
RecordsOf(c) == RecordsIn(origin, c)

\* C6 as stated: a combination whose extraction raises has no record in the
\* sink.
C6_FailedCombinationContributesNothing ==
    [][ExtractErrorStep => RecordsIn(origin', Selected) = {}]_vars

\* C6 as amended: the step in which the extraction of a combination raises
\* writes nothing; a combination that raises before its rows are walked has
\* no record; one that raises at the row of index ri keeps what it wrote
\* for the rows before it, at most one record each.
C6_FailureKeepsWrittenRecords ==
    [][ExtractErrorStep =>
          /\ sink' = sink /\ origin' = origin
          /\ pc = "extract" => RecordsOf(Selected) = {}
          /\ pc \in {"row", "append", "write"} => Cardinality(RecordsOf(Selected)) <= ri]_vars

\* The second row of the first combination raised after the first row was
\* written.
C6_Witness ==
    /\ Len(Attempts) = 1
    /\ Last(log) = <<"extract_error", "read_row">>
    /\ Len(sink) = 2

\* The text of the option of value v in the list opts, and its place.
Pos(opts, v) == CHOOSE k \in 1..Len(opts) : opts[k][1] = v
TextOf(opts, v) == opts[Pos(opts, v)][2]

\* C7: the first two fields of every record are the texts of the district
\* and of the post that were selected when it was written.
C7_RecordCarriesSelectedCombination ==
    \A k \in 2..Len(sink) :
        /\ sink[k][1] = TextOf(districts, origin[k][1])
        /\ sink[k][2] = TextOf(posts, origin[k][2])

\* The place of combination c in the district-major order of the lists.
Rank(c) == (Pos(districts, c[1]) - 1) * Len(posts) + Pos(posts, c[2])

\* C8: the combinations are attempted in district-major, post-minor order,
\* and so are the records in the sink: a record never follows one of a
\* later combination.
C8_DistrictMajorOrder ==
    /\ IsPrefix(Attempts, AllCombos)
    /\ \A j, k \in 2..Len(origin) : j < k => Rank(origin[j]) <= Rank(origin[k])

\* A completed run of 2 x 2 combinations, each with a record in the sink.
C8_Witness ==
    /\ pc = "done"
    /\ Len(Attempts) = 4
    /\ Cardinality(Origins) = 4

\* C9: a failure of the click on the menu button is not a fatal error.
C9_MenuClickFailureNotFatal == "click_menu" \notin FatalCauses

\* C10: no download is attempted and no record is written for a row with
\* fewer than MinCols columns: locating such a row changes nothing but the
\* row index, and the row loop goes on.
C10_ShortRowSkipped ==
    /\ [](pc \in {"photo", "affidavit", "append", "write"} => cols >= MinCols)
    /\ [][(pc = "row" /\ pc' # "post" /\ cols' < MinCols) =>
             /\ pc' = "row" /\ ri' = ri + 1 /\ pi' = pi
             /\ sink' = sink /\ files' = files /\ log' = log]_vars

\* The first row of a table was skipped for its column count and the second
\* was written.
C10_Witness ==
    /\ pc = "row" /\ ri = 2
    /\ anom = 1 /\ cols = MinCols
    /\ Len(sink) = 2
    /\ sink[2][6] = PlainName(1)

\* The lines download_file can print for a call with (url, filename).
DownloadLines(url, filename) == {<<"downloaded", filename>>, <<"download_failed", url>>}
IsDownload(e) == e[1] \in {"downloaded", "download_failed"}

\* C11: for every row and each kind of document: when the row has no
\* reference of that kind (no element, or an empty URL) the step for that
\* kind calls no download and leaves the path empty; when it has one, the
\* step sets the constructed, non-empty path and calls download_file once;
\* the record written carries an empty path exactly for the kinds without
\* a reference.
C11_DownloadIffReference ==
    [][/\ pc = "photo" =>
             IF cur.photo_url = ""
             THEN cur'.photo_filename = <<>> /\ log' = log /\ files' = files
             ELSE /\ cur'.photo_filename # <<>>
                  /\ cur'.photo_filename = PhotoPath(cur.candidate_name)
                  /\ Len(log') = Len(log) + 1
                  /\ Last(log') \in DownloadLines(cur.photo_url, cur'.photo_filename)
       /\ pc = "affidavit" =>
             IF cur.affidavit_url = ""
             THEN cur'.affidavit_filename = <<>> /\ log' = log /\ files' = files
             ELSE /\ cur'.affidavit_filename # <<>>
                  /\ cur'.affidavit_filename = AffidavitPath(cur.candidate_name)
                  /\ Len(log') = Len(log) + 1
                  /\ Last(log') \in DownloadLines(cur.affidavit_url, cur'.affidavit_filename)
       /\ pc = "write" =>
             /\ (Last(sink')[13] = <<>>) <=> (cur.photo_url = "")
             /\ (Last(sink')[14] = <<>>) <=> (cur.affidavit_url = "")]_vars

\* A row with a photo and no affidavit link was written: its photo path is
\* set, its affidavit path is empty and one download was attempted.
C11_Witness ==
    /\ pc = "row" /\ ri = 1
    /\ Len(sink) = 2
    /\ sink[2][13] = PhotoPath(sink[2][6]) /\ sink[2][14] = <<>>
    /\ Len(log) = 2 /\ IsDownload(log[2])

\* The places of the fatal errors on the console.
FatalLines == {i \in 1..Len(log) : log[i][1] = "fatal"}

\* C12: after a fatal error no combination is submitted and no record is
\* appended: the fatal error is the last line printed, the only one of its
\* kind, and the one step that follows it is teardown, which leaves the
\* sink, the downloaded files and the console as they are.
C12_NothingAfterFatal ==
    /\ [](FatalLines # {} =>
             /\ FatalLines = {Len(log)}
             /\ pc \in {"cleanup", "done"})
    /\ [][FatalLines # {} =>
             /\ pc = "cleanup" /\ pc' = "done"
             /\ sink' = sink /\ origin' = origin /\ files' = files /\ log' = log]_vars

\* A run ended by a fatal error after it had written records, with
\* combinations left that were never attempted.
C12_Witness ==
    /\ pc = "done"
    /\ FatalLines # {}
    /\ Len(sink) > 1
    /\ Len(Attempts) < NumCombos

\* C13: the sink is the header row followed by whole records, one for
\* every append made; a step leaves the lines it holds in place and adds at
\* most one, through a handle that it closes; and the handle is open only
\* between the opening of the file for one record and the write of that
\* record, so wherever the run stops after K appends the file holds
\* exactly K whole records.
C13_SinkAppendOnly ==
    /\ [](/\ sink[1] = Header
          /\ \A k \in 2..Len(sink) : Len(sink[k]) = Len(Header) /\ sink[k] # Header
          /\ Len(sink) = Len(origin)
          /\ f = "open" => pc = "write")
    /\ [][/\ IsPrefix(sink, sink')
          /\ Len(sink') <= Len(sink) + 1
          /\ sink' # sink => (f = "open" /\ f' = "closed")]_vars

\* The file is open for the second record of a run, the first one written.
C13_Witness ==
    /\ pc = "write" /\ f = "open"
    /\ Len(sink) = 2

\* The lines printed for the combination announced at place i of the
\* console: those up to the next announcement.
ScrapingLines == {i \in 1..Len(log) : IsScraping(log[i])}
SegmentOf(i) == {j \in (i + 1)..Len(log) : \A k \in (i + 1)..j : ~IsScraping(log[k])}

\* The lines that report the fetch of a photo, of an affidavit.
IsPhotoLine(e) ==
    \/ e[1] = "downloaded" /\ Last(e[2]) = Last(PhotoSuffix)
    \/ e[1] = "download_failed" /\ e[2] = PhotoUrl
IsAffidavitLine(e) ==
    \/ e[1] = "downloaded" /\ Last(e[2]) = Last(AffidavitSuffix)
    \/ e[1] = "download_failed" /\ e[2] = AffidavitUrl
PhotoFetches(i) == Cardinality({j \in SegmentOf(i) : IsPhotoLine(log[j])})
AffidavitFetches(i) == Cardinality({j \in SegmentOf(i) : IsAffidavitLine(log[j])})

\* C14: no combination is submitted twice, and no document of a row is
\* fetched twice, whether the fetch failed or not: a combination fetches
\* at most one photo and one affidavit for each row of its table, and while
\* the row at index ri is processed, at most one for each row up to it.
C14_NoRetries ==
    /\ \A i, j \in 1..Len(Attempts) : i < j => Attempts[i] # Attempts[j]
    /\ \A i \in ScrapingLines :
          /\ PhotoFetches(i) <= tableRows
          /\ AffidavitFetches(i) <= tableRows
          /\ (pc \in {"row", "photo", "affidavit", "append", "write"} /\ SegmentOf(i) = (i + 1)..Len(log)) =>
                /\ PhotoFetches(i) <= ri + (IF pc \in {"affidavit", "append", "write"} THEN 1 ELSE 0)
                /\ AffidavitFetches(i) <= ri + (IF pc \in {"append", "write"} THEN 1 ELSE 0)

\* A run over one combination and one row ended: the photo failed, was not
\* fetched again, and the affidavit was fetched after it.
C14_Witness ==
    /\ pc = "done"
    /\ Len(log) = 3
    /\ log[2] = <<"download_failed", PhotoUrl>>
    /\ log[3][1] = "downloaded"

\* C15: the output file has one header, its first line, however often the
\* script ran on it; and when every run so far went over the same portal
\* with no failure and no irregular row, the file holds, after the header,
\* the records of the first run once for every run, in the same order.
C15_RerunAppendsCopy ==
    /\ sink[1] = Header
    /\ \A k \in 2..Len(sink) : sink[k] # Header
    /\ (pc = "done" /\ anom = 0) =>
          LET n == NumCombos * tableRows IN
          /\ Len(sink) = 1 + run * n
          /\ \A k \in (n + 2)..Len(sink) : sink[k] = sink[k - n]

\* Two runs over 2 x 2 combinations of two rows each have ended.
C15_Witness ==
    /\ pc = "done" /\ run = 2 /\ anom = 0
    /\ Len(sink) = 1 + 2 * 8
    /\ sink[2] # sink[3] /\ sink[2] = sink[10]

\* values is opts without its first entry, the others in their order.
WithoutFirst(values, opts) ==
    /\ Len(values) = (IF Len(opts) = 0 THEN 0 ELSE Len(opts) - 1)
    /\ \A k \in 1..Len(values) : values[k] = opts[k + 1]

\* C16: what get_select_options returned for a dropdown is the option list
\* of the dropdown without its first entry, the other (value, text) pairs
\* in source order; nothing for an empty list or a list of the placeholder
\* alone.  The two lists are read once the loops start (di >= 1); a list
\* not read is empty.
C16_OptionsWithoutFirst ==
    /\ districts = <<>> \/ WithoutFirst(districts, ddlDistrict)
    /\ posts = <<>> \/ WithoutFirst(posts, ddlPosts)
    /\ di >= 1 => (WithoutFirst(districts, ddlDistrict) /\ WithoutFirst(posts, ddlPosts))

\* The lists were read from a district dropdown that holds the placeholder
\* alone and a post dropdown of the placeholder and two options.
C16_Witness ==
    /\ di >= 1
    /\ Len(ddlDistrict) = 1 /\ districts = <<>>
    /\ Len(ddlPosts) = 3 /\ posts = <<ddlPosts[2], ddlPosts[3]>>

\* C17: run_all_combinations, once called, returns; it returns from
\* cleanup and from nowhere else, nothing follows, and no exception leaves
\* it: the process can end by an exception only in start_browser, before
\* the call.
C17_RunTerminates ==
    /\ (pc = "navigate") ~> (pc = "done")
    /\ [][/\ pc' = "done" => pc = "cleanup"
          /\ pc' = "crashed" => pc = "start"
          /\ pc # "done"]_vars

\* A run that went through all of 2 x 2 combinations has returned, the
\* session released.
C17_Witness ==
    /\ pc = "done"
    /\ FatalLines = {}
    /\ NumCombos = 4 /\ Len(Attempts) = 4
    /\ page = "closed"

\* The texts of the options of a dropdown.
Texts(opts) == {opts[k][2] : k \in 1..Len(opts)}

\* The names a table can show for a candidate.
Names == UNION {{PlainName(i), SlashName(i), UnderName(i)} : i \in 0..(MaxRows - 1)}

\* The cell of the table that the column named in the header is read from
\* (lines 88-97), for the columns that are neither the combination, the name
\* nor a document.
CellOf ==
    [NagarNikay |-> 3, WardNo |-> 4, ReservationStatus |-> 5, GuardianName |-> 7,
     Gender |-> 8, Age |-> 9, Category |-> 10, Address |-> 11, MobileNo |-> 12]

\* The value v is one that the column called name can hold.
FitsColumn(name, v) ==
    CASE name = "District" -> v \in Texts(ddlDistrict) \cup {OtherText}
      [] name = "Post" -> v \in Texts(ddlPosts) \cup {OtherText}
      [] name = "CandidateName" -> v \in Names
      [] name = "CandidatePhotoFile" -> v = <<>> \/ Last(v) = Last(PhotoSuffix)
      [] name = "AffidavitFile" -> v = <<>> \/ Last(v) = Last(AffidavitSuffix)
      [] OTHER -> v = <<ColText[CellOf[name] + 1]>>

\* C18: every record of the sink has as many fields as the header, 14, and
\* its fields are in the order of the header: the field under every name of
\* the header is the trimmed text of the cell that column is read from, a
\* district under District, a post under Post, a name under CandidateName,
\* and the path of a photo and of an affidavit, or nothing, under the last
\* two.
C18_RecordMatchesHeader ==
    /\ Len(Header) = 14
    /\ \A k \in 2..Len(sink) :
          /\ Len(sink[k]) = Len(Header)
          /\ \A j \in 1..Len(Header) : FitsColumn(Header[j], sink[k][j])

\* Two records were written, the second with both of its documents.
C18_Witness ==
    /\ pc = "row"
    /\ Len(sink) = 3
    /\ sink[3][1] \in Texts(ddlDistrict) /\ sink[3][2] \in Texts(ddlPosts)
    /\ sink[3][13] # <<>> /\ sink[3][14] # <<>>

\* The places on the console of the lines that report path p as written.
WritesOf(p) == {i \in 1..Len(log) : log[i] = <<"downloaded", p>>}
Latest(S) == CHOOSE i \in S : \A j \in S : j <= i

\* path is the download directory, a separator, the name with every "/"
\* turned into "_", and the suffix.
BuiltFrom(path, name, suffix) ==
    /\ Len(path) = Len(name) + 3
    /\ path[1] = DownloadDir[1] /\ path[2] = "/"
    /\ \A i \in 1..Len(name) : path[i + 2] = (IF name[i] = "/" THEN "_" ELSE name[i])
    /\ Last(path) = suffix[1]

\* C19: the path of a document in a record is built from the name of the
\* candidate and the kind of the document alone; two records, of whatever
\* combinations, have the same path for a kind exactly when their names
\* are equal once "/" is replaced, and never the same path for two kinds;
\* the store holds one file for each path reported as written, and that
\* file is the one written last.
C19_PathFromNameAndKind ==
    /\ \A k \in 2..Len(sink) :
          /\ sink[k][13] # <<>> => BuiltFrom(sink[k][13], sink[k][6], PhotoSuffix)
          /\ sink[k][14] # <<>> => BuiltFrom(sink[k][14], sink[k][6], AffidavitSuffix)
    /\ \A j, k \in 2..Len(sink) :
          /\ (sink[j][13] # <<>> /\ sink[k][13] # <<>>) =>
                ((sink[j][13] = sink[k][13]) <=> (Sanitize(sink[j][6]) = Sanitize(sink[k][6])))
          /\ (sink[j][14] # <<>> /\ sink[k][14] # <<>>) =>
                ((sink[j][14] = sink[k][14]) <=> (Sanitize(sink[j][6]) = Sanitize(sink[k][6])))
          /\ sink[j][13] # <<>> => sink[j][13] # sink[k][14]
    /\ DOMAIN files = {log[i][2] : i \in {j \in 1..Len(log) : log[j][1] = "downloaded"}}
    /\ \A p \in DOMAIN files : files[p].at = Latest(WritesOf(p))

\* Two records of candidates whose names differ, "N/1" and "N_1", have the
\* same photo path, and the file there is the one of the second download.
C19_Witness ==
    \E j, k \in 2..Len(sink) :
        /\ j < k
        /\ sink[j][6] # sink[k][6]
        /\ sink[j][13] # <<>> /\ sink[j][13] = sink[k][13]
        /\ Cardinality(WritesOf(sink[j][13])) = 2
        /\ files[sink[j][13]].at = Latest(WritesOf(sink[j][13]))

\* The number of documents the row in progress has a path for.
Documents ==
    (IF cur.photo_filename # <<>> THEN 1 ELSE 0) + (IF cur.affidavit_filename # <<>> THEN 1 ELSE 0)

\* C20: when the file is opened for the record of a row, and when the
\* record is written, the fetches of its documents are the last things
\* that happened, the photo before the affidavit; the step that writes a
\* record fetches nothing and writes the paths set before those fetches;
\* and a document is fetched only for a row that has no record yet: the
\* combination has at most one record for each row before it.
C20_DownloadsBeforeRecord ==
    /\ [](pc \in {"append", "write"} =>
             /\ Len(log) > Documents
             /\ cur.affidavit_filename # <<>> =>
                   Last(log) \in DownloadLines(cur.affidavit_url, cur.affidavit_filename)
             /\ cur.photo_filename # <<>> =>
                   log[Len(log) + 1 - Documents] \in DownloadLines(cur.photo_url, cur.photo_filename))
    /\ [][/\ sink' # sink =>
                /\ log' = log /\ files' = files
                /\ Last(sink')[13] = cur.photo_filename
                /\ Last(sink')[14] = cur.affidavit_filename
          /\ (Len(log') > Len(log) /\ IsDownload(Last(log'))) =>
                /\ pc \in {"photo", "affidavit"}
                /\ sink' = sink
                /\ Cardinality(RecordsOf(Selected)) <= ri]_vars

\* The record of the first row was written after both of its documents
\* were fetched and stored.
C20_Witness ==
    /\ pc = "row" /\ ri = 1
    /\ Len(sink) = 2
    /\ Len(log) = 3
    /\ log[2] = <<"downloaded", sink[2][13]>>
    /\ log[3] = <<"downloaded", sink[2][14]>>
====
